---- MODULE Spec2Model ----
(***************************************************************************)
(* Smart Safety Band backend (src/server.js): the telemetry ingest         *)
(* endpoints POST /receive and POST /api/sensor/data, the emergency rules  *)
(* they evaluate, the Activity and SensorData collections they write, the  *)
(* seeding of sample data and the 30-minute retention sweep.               *)
(*                                                                         *)
(* Time is counted in minutes.  A JSON field that may be missing is a      *)
(* sequence of length 0 (missing) or 1 (present).  A database write that   *)
(* fails is chosen by the environment: `fault` names the one write that    *)
(* throws if the handler attempts it.                                      *)
(***************************************************************************)
EXTENDS Integers, Sequences, FiniteSets, TLC

\* ------------------------------------------------------------------ bounds
MaxIngest == 1       \* requests handled per behaviour of Spec
MaxWrites == 2       \* write requests (ingest, seed) per behaviour of SpecRetention
MaxTime == 6         \* the clock stops at RetentionMinutes + MaxTime
MaxArrival == 6      \* SpecRetention: write requests arrive up to this minute
MaxContacts == 3     \* emergency contacts on a profile
MaxStored == 2       \* SpecRequests: samples in the store
MaxClock == 2        \* SpecRequests: the clock stops at this minute
MaxActivities == 6   \* SpecStats: activities in the collection
MaxSockets == 3      \* SpecConnector: sockets made by initialize()
MaxCalls == 3        \* SpecRace: POST /receive requests
MaxLag == 6          \* SpecSweeps: a deleteMany takes fewer minutes than this
MaxEarly == 4        \* SpecSweeps: the first write requests arrive up to this minute

\* ------------------------------------------------------- program constants
FallHighG == 15              \* totalAcceleration > 15
FallLowG == 2                \* totalAcceleration < 2
RapidRotation == 200         \* totalRotation > 200
HeartRateHigh == 120
HeartRateLow == 50
HeartRateCritical == 150
TemperatureHigh == 38
TemperatureLow == 35
BatteryLow == 20
BatteryCritical == 10
HeartRateMin == 0
HeartRateMax == 300
TemperatureMin == -50
TemperatureMax == 100
BatteryMin == 0
BatteryMax == 100
GpsAccuracy == 10
RetentionMinutes == 30
SweepIntervalMinutes == 5
SeedAgeFirst == 5
SeedAgeSecond == 2
HistoryDefaultLimit == 50    \* const { limit = 50, skip = 0, ... } = req.query
HistoryDefaultSkip == 0

DemoEmail == "rahul.sharma@smartsafetyband.com"
DemoPhone == "+91 98765 43210"
Esp32DeviceId == "ESP32_001"

\* ------------------------------------------------------ JSON value helpers
Absent == << >>
Some(v) == << v >>
Has(o) == o # << >>
Val(o) == o[1]

\* A scalar of a request body: a JSON number, or a string of decimal digits.
JNum(n) == [kind |-> "number", n |-> n]
JStr(n) == [kind |-> "string", n |-> n]

\* A string that holds no number, such as "abc".
JText == [kind |-> "text", n |-> 0]

\* JavaScript truthiness of a scalar field: undefined and the number 0 are
\* falsy; every non-empty string is truthy, "0" included.
Truthy(o) == Has(o) /\ (Val(o).kind # "number" \/ Val(o).n # 0)

\* parseInt / parseFloat / the numeric coercion of a comparison: the number
\* itself, or the number the digits of the string denote.
ParseNumber(v) == v.n

\* parseInt / parseFloat / new Date of the field give NaN (an invalid Date):
\* the field is a string that holds no number.
NotANumber(o) == Has(o) /\ Val(o).kind = "text"

\* A plain number field (axis of a vector; /api/sensor/data scalars).
TruthyNumber(o) == Has(o) /\ Val(o) # 0
TruthyFlag(o) == Has(o) /\ Val(o) = TRUE

\* `vec?.a || 0`
Axis(vec, a) == IF Has(vec) /\ TruthyNumber(Val(vec)[a]) THEN Val(Val(vec)[a]) ELSE 0

Vec(x, y, z) == Some([x |-> Some(x), y |-> Some(y), z |-> Some(z)])

\* Math.sqrt of a non-negative integer, kept exact: its floor, and whether
\* the argument is a perfect square.
RECURSIVE IsqrtIn(_, _, _)
IsqrtIn(n, lo, hi) ==
    IF lo >= hi THEN lo
    ELSE LET mid == (lo + hi + 1) \div 2
         IN  IF mid * mid <= n THEN IsqrtIn(n, mid, hi) ELSE IsqrtIn(n, lo, mid - 1)

Sqrt(n) == LET r == IsqrtIn(n, 0, n) IN [floor |-> r, exact |-> r * r = n]

Magnitude(x, y, z) == Sqrt(x * x + y * y + z * z)

\* root > k and root < k for an integer k
Greater(root, k) == root.floor > k \/ (root.floor = k /\ ~root.exact)
Less(root, k) == root.floor < k

\* ---------------------------------------------------------------- state
VARIABLES
    now,          \* Date.now(), in minutes
    users,        \* the User collection
    sensorData,   \* the SensorData collection
    activities,   \* the Activity collection, in insertion order
    nextId,       \* source of SensorData _id values
    reqs,         \* write requests handled so far
    input,        \* the request body under test
    last,         \* the last ingest request: body, response, what it wrote
    timerDue,     \* when the setInterval timer of the sweep next fires
    sweep,        \* the last retention sweep: whether it threw, what it deleted
    deleting,     \* cutoffs of the deleteMany calls of sweeps still in progress
    calls,        \* POST /receive requests suspended at an await
    sock,         \* WhatsAppService.sock: 0 for null, else the socket made
    isConnected,  \* WhatsAppService.isConnected
    qrCode,       \* WhatsAppService.qrCode: whether one is held
    connectionState, \* WhatsAppService.connectionState
    timers,       \* reconnect timeouts set and not yet run
    sockets       \* every socket made so far: "connecting", "open" or "closed"

\* The collections, the clock and the records of the last request and sweep.
store == << now, users, sensorData, activities, nextId, reqs, input, last, timerDue, sweep >>

\* The fields of the WhatsAppService object, its timers and its sockets.
connector == << sock, isConnected, qrCode, connectionState, timers, sockets >>

vars == << store, deleting, calls, connector >>

\* emergencyContacts is the schema default, an empty array.
DemoUser ==
    [id |-> "demo", email |-> DemoEmail, phone |-> DemoPhone, emergencyContacts |-> << >>]
AppUser ==
    [id |-> "u1", email |-> "user@example.com", phone |-> "+91 90000 00001",
     emergencyContacts |-> << >>]

\* ------------------------------------------------------- emergency rules
\* POST /receive: `totalAcceleration > 15 || totalAcceleration < 2`
FallConditionInclusive(totalAcceleration) ==
    ~Less(totalAcceleration, FallHighG) \/ Less(totalAcceleration, FallLowG)

FallCondition(totalAcceleration) ==
    Greater(totalAcceleration, FallHighG) \/ Less(totalAcceleration, FallLowG)

\* POST /receive: `totalRotation > 200`
RapidConditionInclusive(totalRotation) == ~Less(totalRotation, RapidRotation)

RapidCondition(totalRotation) == Greater(totalRotation, RapidRotation)

\* POST /api/sensor/data: `if (emergencyTriggered)`, `if (fallDetected)`
ButtonCondition(emergencyTriggered) == TruthyFlag(emergencyTriggered)
DeviceFallCondition(fallDetected) == TruthyFlag(fallDetected)

\* `heartRate && (heartRate > 120 || heartRate < 50)`
VitalsCondition(heartRate) ==
    Truthy(heartRate)
    /\ (ParseNumber(Val(heartRate)) > HeartRateHigh \/ ParseNumber(Val(heartRate)) < HeartRateLow)

\* `heartRate > 150 ? 'error' : 'warning'`
VitalsStatus(heartRate) ==
    IF ParseNumber(Val(heartRate)) > HeartRateCritical THEN "error" ELSE "warning"

\* `temperature && (temperature > 38 || temperature < 35)`
TemperatureCondition(temperature) ==
    Truthy(temperature)
    /\ (ParseNumber(Val(temperature)) > TemperatureHigh
        \/ ParseNumber(Val(temperature)) < TemperatureLow)

\* `batteryLevel && batteryLevel < 20`
BatteryCondition(batteryLevel) ==
    Truthy(batteryLevel) /\ ParseNumber(Val(batteryLevel)) < BatteryLow

\* `batteryLevel < 10 ? 'error' : 'warning'`
BatteryStatus(batteryLevel) ==
    IF ParseNumber(Val(batteryLevel)) < BatteryCritical THEN "error" ELSE "warning"

\* ------------------------------------------------------------ documents
\* sensorDataSchema validators: min/max of heartRate, temperature, batteryLevel
InRange(o, lo, hi) == ~Has(o) \/ (Val(o) >= lo /\ Val(o) <= hi)

SampleValid(doc) ==
    /\ InRange(doc.heartRate, HeartRateMin, HeartRateMax)
    /\ InRange(doc.temperature, TemperatureMin, TemperatureMax)
    /\ InRange(doc.batteryLevel, BatteryMin, BatteryMax)

\* new Activity({userId, type, message, status}); createdAt defaults to Date.now
NewActivity(userId, type, message, status) ==
    [userId |-> userId, type |-> type, message |-> message, status |-> status,
     createdAt |-> now]

InsertedAlone(doc) == {doc}

\* `await sensorData.save()` of a new document: the collection gains it.
Inserted(doc) == sensorData \cup {doc}

\* Mongoose casts a scalar of the body to the Number of the schema.
CastNumber(o) == IF Has(o) THEN Some(ParseNumber(Val(o))) ELSE Absent

\* Schema default `false` of emergencyTriggered and fallDetected.
FlagOrDefault(o) == IF Has(o) THEN Val(o) ELSE FALSE

\* The activity writes a handler attempts one after the other, each awaited
\* outside any try block: the first one that throws ends the handler.  The
\* result is the number of writes that completed before the throw, or the
\* length of the list when none throws.
RECURSIVE CompletedBefore(_, _)
CompletedBefore(steps, fault) ==
    IF steps = << >> \/ Head(steps).name = fault THEN 0
    ELSE 1 + CompletedBefore(Tail(steps), fault)

\* The activities the rule checks have saved: none when the save of the sample
\* threw (the handler ended there), else those of the checks that completed.
WrittenActivitiesUnguarded(saved, rules, done) == [i \in 1..done |-> rules[i].activity]

WrittenActivities(saved, rules, done) ==
    IF saved THEN [i \in 1..done |-> rules[i].activity] ELSE << >>

NoResponse ==
    [endpoint |-> "none", status |-> 0, body |-> Absent,
     dataId |-> Absent, fallDetected |-> FALSE, emergencyTriggered |-> FALSE,
     activitiesTriggered |-> << >>, sample |-> Absent, written |-> << >>,
     failed |-> {}, logged |-> {}]

\* ---------------------------------------------------------- POST /receive
\* `field ? parseInt(field) : undefined`
ParsedOrUndefined(o) == IF Truthy(o) THEN Some(ParseNumber(Val(o))) ELSE Absent

\* A creation time copied from the timestamp the device sent.
CreatedAtFromDevice(timestamp) == IF Truthy(timestamp) THEN ParseNumber(Val(timestamp)) ELSE now

\* sensorDataSchema `createdAt: {type: Date, default: Date.now}`: neither
\* ingest handler passes createdAt to the constructor, so the default applies
\* whatever timestamp the body carries.
CreatedAt(timestamp) == now

\* `timestamp ? new Date(parseInt(timestamp)) : new Date()`
ReceiveTimestamp(timestamp) == IF Truthy(timestamp) THEN ParseNumber(Val(timestamp)) ELSE now

\* `latitude && longitude ? {latitude, longitude, accuracy: 10} : undefined`
ReceiveLocation(latitude, longitude) ==
    IF Truthy(latitude) /\ Truthy(longitude)
    THEN Some([latitude |-> ParseNumber(Val(latitude)),
               longitude |-> ParseNumber(Val(longitude)), accuracy |-> GpsAccuracy])
    ELSE Absent

\* new SensorData({...}) of POST /receive: neither flag is passed, so both
\* take the schema default; createdAt defaults to Date.now.
ReceiveSample(body, userId, accX, accY, accZ, gyroX, gyroY, gyroZ) ==
    [id |-> nextId, userId |-> userId, deviceId |-> Esp32DeviceId,
     accelerometer |-> Vec(accX, accY, accZ), gyroscope |-> Vec(gyroX, gyroY, gyroZ),
     location |-> ReceiveLocation(body.latitude, body.longitude),
     heartRate |-> ParsedOrUndefined(body.heartRate),
     temperature |-> ParsedOrUndefined(body.temperature),
     batteryLevel |-> ParsedOrUndefined(body.batteryLevel),
     emergencyTriggered |-> FlagOrDefault(Absent), fallDetected |-> FlagOrDefault(Absent),
     timestamp |-> ReceiveTimestamp(body.timestamp),
     createdAt |-> CreatedAt(body.timestamp)]

\* Mongoose refuses to cast NaN to a Number and an invalid Date to a Date:
\* the document carries a cast error and save() rejects.  A field is parsed
\* only when it is truthy, latitude and longitude only when both are.
ReceiveCastFails(body) ==
    \/ /\ Truthy(body.latitude) /\ Truthy(body.longitude)
       /\ (NotANumber(body.latitude) \/ NotANumber(body.longitude))
    \/ Truthy(body.heartRate) /\ NotANumber(body.heartRate)
    \/ Truthy(body.temperature) /\ NotANumber(body.temperature)
    \/ Truthy(body.batteryLevel) /\ NotANumber(body.batteryLevel)
    \/ Truthy(body.timestamp) /\ NotANumber(body.timestamp)

\* The rule checks of POST /receive, in the order of the code, each with the
\* activity it saves when it fires.
ReceiveRules(userId, totalAcceleration, totalRotation) ==
    (IF FallCondition(totalAcceleration)
     THEN << [name |-> "fall",
              activity |-> NewActivity(userId, "emergency", "Potential fall detected!", "warning")] >>
     ELSE << >>)
    \o
    (IF RapidCondition(totalRotation)
     THEN << [name |-> "rapid",
              activity |-> NewActivity(userId, "emergency", "Rapid movement detected!", "error")] >>
     ELSE << >>)

SyncActivity(userId) == NewActivity(userId, "sync", "ESP32 sensor data received", "success")

Receive(body, fault) ==
    LET accX == Axis(body.accelerometer, "x")
        accY == Axis(body.accelerometer, "y")
        accZ == Axis(body.accelerometer, "z")
        gyroX == Axis(body.gyroscope, "x")
        gyroY == Axis(body.gyroscope, "y")
        gyroZ == Axis(body.gyroscope, "z")
        totalAcceleration == Magnitude(accX, accY, accZ)
        totalRotation == Magnitude(gyroX, gyroY, gyroZ)
        found == {u \in users : u.email = DemoEmail}
        userThrows == found = {} /\ fault = "user"
        user == IF found = {} THEN DemoUser ELSE CHOOSE u \in found : TRUE
        doc == ReceiveSample(body, user.id, accX, accY, accZ, gyroX, gyroY, gyroZ)
        sampleThrows == fault = "sample" \/ ReceiveCastFails(body) \/ ~SampleValid(doc)
        saved == ~userThrows /\ ~sampleThrows
        rules == ReceiveRules(user.id, totalAcceleration, totalRotation)
        done == CompletedBefore(rules, fault)
        ruleThrows == saved /\ done < Len(rules)
        completed == saved /\ ~ruleThrows
        syncThrows == completed /\ fault = "sync"
        written == WrittenActivities(saved, rules, done)
                   \o (IF completed /\ ~syncThrows THEN << SyncActivity(user.id) >> ELSE << >>)
        failed == IF userThrows THEN {"user"}
                  ELSE IF sampleThrows THEN {"sample"}
                  ELSE IF ruleThrows THEN {rules[done + 1].name}
                  ELSE IF syncThrows THEN {"sync"} ELSE {}
    IN  /\ users' = IF found = {} /\ ~userThrows THEN users \cup {DemoUser} ELSE users
        /\ sensorData' = IF saved THEN Inserted(doc) ELSE sensorData
        /\ nextId' = IF saved THEN nextId + 1 ELSE nextId
        /\ activities' = activities \o written
        /\ reqs' = reqs + 1
        /\ last' = [endpoint |-> "receive",
                    status |-> IF completed THEN 200 ELSE 500,
                    body |-> Some(body),
                    dataId |-> IF completed THEN Some(doc.id) ELSE Absent,
                    fallDetected |-> completed /\ FallCondition(totalAcceleration),
                    emergencyTriggered |-> completed /\ RapidCondition(totalRotation),
                    activitiesTriggered |-> << >>,
                    sample |-> IF saved THEN Some(doc) ELSE Absent,
                    written |-> written, failed |-> failed,
                    logged |-> IF syncThrows THEN {"Error creating activity record"}
                               ELSE IF ~completed THEN {"ESP32 data processing error"}
                               ELSE {}]
        /\ UNCHANGED << deleting, calls, connector, now, input, timerDue, sweep >>

\* POST /receive with other requests running between its awaits.  A request
\* arrives and runs up to `await User.findOne({email})`: `calls` keeps, per
\* request in order of arrival, whether the demo user was found.
ReceiveFindUser ==
    /\ Len(calls) < MaxCalls
    /\ calls' = Append(calls, \E u \in users : u.email = DemoEmail)
    /\ UNCHANGED << store, deleting, connector >>

\* The oldest suspended request goes on after findOne.  If findOne found no
\* user and another request has created one since, `await user.save()` is
\* rejected by the unique index on email and the outer catch answers 500;
\* otherwise the request does what an undisturbed one does.
ReceiveResume(body) ==
    /\ reqs < Len(calls)
    /\ IF ~calls[reqs + 1] /\ (\E u \in users : u.email = DemoEmail)
       THEN /\ reqs' = reqs + 1
            /\ last' = [NoResponse EXCEPT !.endpoint = "receive", !.status = 500,
                                          !.body = Some(body), !.failed = {"user"},
                                          !.logged = {"ESP32 data processing error"}]
            /\ UNCHANGED << now, users, sensorData, activities, nextId, input, timerDue,
                            sweep, deleting, calls, connector >>
       ELSE Receive(body, "none")

\* -------------------------------------------------- POST /api/sensor/data
\* `userId ? User.findById(userId) : User.findOne({phone: deviceId})`
ResolveUser(deviceId, userId) ==
    IF Has(userId) THEN {u \in users : u.id = Val(userId)}
    ELSE {u \in users : u.phone = Val(deviceId)}

\* `timestamp ? new Date(timestamp) : new Date()`
DataTimestamp(timestamp) == IF Truthy(timestamp) THEN ParseNumber(Val(timestamp)) ELSE now

\* new SensorData({...}) of POST /api/sensor/data: the fields of the body as
\* they come, cast by the schema.
DataSample(body, userId) ==
    [id |-> nextId, userId |-> userId, deviceId |-> Val(body.deviceId),
     accelerometer |-> body.accelerometer, gyroscope |-> body.gyroscope,
     location |-> body.location,
     heartRate |-> CastNumber(body.heartRate),
     temperature |-> CastNumber(body.temperature),
     batteryLevel |-> CastNumber(body.batteryLevel),
     emergencyTriggered |-> FlagOrDefault(body.emergencyTriggered),
     fallDetected |-> FlagOrDefault(body.fallDetected),
     timestamp |-> DataTimestamp(body.timestamp),
     createdAt |-> CreatedAt(body.timestamp)]

\* `if (emergencyTriggered) { ... save ...; activities.push('emergency_triggered') }`
ButtonRuleSkippedOnFall(body, userId) ==
    IF ButtonCondition(body.emergencyTriggered) /\ ~TruthyFlag(body.fallDetected)
    THEN << [name |-> "emergency_triggered",
             activity |-> [userId |-> userId, type |-> "emergency",
                           message |-> "Emergency button pressed on device",
                           status |-> "error", createdAt |-> now]] >>
    ELSE << >>

ButtonRule(body, userId) ==
    IF ButtonCondition(body.emergencyTriggered)
    THEN << [name |-> "emergency_triggered",
             activity |-> NewActivity(userId, "emergency",
                                      "Emergency button pressed on device", "error")] >>
    ELSE << >>

\* `if (fallDetected) { ... }`
DeviceFallRule(body, userId) ==
    IF DeviceFallCondition(body.fallDetected)
    THEN << [name |-> "fall_detected",
             activity |-> NewActivity(userId, "emergency",
                                      "Fall detected by device sensors", "warning")] >>
    ELSE << >>

\* `if (heartRate && (heartRate > 120 || heartRate < 50)) { ... }`
VitalsRule(body, userId) ==
    IF VitalsCondition(body.heartRate)
    THEN << [name |-> "abnormal_vitals",
             activity |-> NewActivity(userId, "system", "Abnormal heart rate detected",
                                      VitalsStatus(body.heartRate))] >>
    ELSE << >>

\* `if (temperature && (temperature > 38 || temperature < 35)) { ... }`
TemperatureRule(body, userId) ==
    IF TemperatureCondition(body.temperature)
    THEN << [name |-> "abnormal_temperature",
             activity |-> NewActivity(userId, "system", "Abnormal body temperature",
                                      "warning")] >>
    ELSE << >>

\* `if (batteryLevel && batteryLevel < 20) { ... }`
BatteryRule(body, userId) ==
    IF BatteryCondition(body.batteryLevel)
    THEN << [name |-> "low_battery",
             activity |-> NewActivity(userId, "system", "Low battery warning",
                                      BatteryStatus(body.batteryLevel))] >>
    ELSE << >>

\* The rule checks of POST /api/sensor/data, in the order of the code, each
\* with the activity it saves and the name it pushes when it fires.
DataRules(body, userId) ==
    ButtonRule(body, userId) \o DeviceFallRule(body, userId) \o VitalsRule(body, userId)
    \o TemperatureRule(body, userId) \o BatteryRule(body, userId)

\* The schema casts the fields of the body as they come; a string that
\* holds no number is neither a Number nor, through new Date, a Date.
DataCastFails(body) ==
    \/ NotANumber(body.heartRate)
    \/ NotANumber(body.temperature)
    \/ NotANumber(body.batteryLevel)
    \/ Truthy(body.timestamp) /\ NotANumber(body.timestamp)

DataRejectedOnlyWithoutDevice(missingDevice, found) == missingDevice

\* The two early returns of the handler: `if (!deviceId) return 400` and
\* `if (!user) return 404`, both before anything is constructed or saved.
DataRejected(missingDevice, found) == missingDevice \/ found = {}

PostSensorData(body, fault) ==
    LET missingDevice == ~Has(body.deviceId)
        found == IF missingDevice THEN {} ELSE ResolveUser(body.deviceId, body.userId)
        rejected == DataRejected(missingDevice, found)
        user == IF found = {} THEN DemoUser ELSE CHOOSE u \in found : TRUE
        doc == DataSample(body, user.id)
        sampleThrows == ~rejected /\ (fault = "sample" \/ DataCastFails(body) \/ ~SampleValid(doc))
        saved == ~rejected /\ ~sampleThrows
        rules == IF rejected THEN << >> ELSE DataRules(body, user.id)
        done == CompletedBefore(rules, fault)
        ruleThrows == saved /\ done < Len(rules)
        completed == saved /\ ~ruleThrows
        written == WrittenActivities(saved, rules, done)
    IN  /\ sensorData' = IF saved THEN Inserted(doc) ELSE sensorData
        /\ nextId' = IF saved THEN nextId + 1 ELSE nextId
        /\ activities' = activities \o written
        /\ reqs' = reqs + 1
        /\ last' = [endpoint |-> "data",
                    status |-> IF missingDevice THEN 400
                               ELSE IF found = {} THEN 404
                               ELSE IF completed THEN 201 ELSE 500,
                    body |-> Some(body),
                    dataId |-> IF completed THEN Some(doc.id) ELSE Absent,
                    fallDetected |-> FALSE, emergencyTriggered |-> FALSE,
                    activitiesTriggered |->
                        IF completed THEN [i \in 1..Len(rules) |-> rules[i].name] ELSE << >>,
                    sample |-> IF saved THEN Some(doc) ELSE Absent,
                    written |-> written,
                    failed |-> IF sampleThrows THEN {"sample"}
                               ELSE IF ruleThrows THEN {rules[done + 1].name} ELSE {},
                    logged |-> IF sampleThrows \/ ruleThrows THEN {"Sensor data error"} ELSE {}]
        /\ UNCHANGED << deleting, calls, connector, now, users, input, timerDue, sweep >>

\* ------------------------------------------------------- seedSensorData
SeedSample(id, userId, age, heartRate, batteryLevel, accuracy) ==
    [id |-> id, userId |-> userId, deviceId |-> Esp32DeviceId,
     accelerometer |-> Vec(1, -1, 10), gyroscope |-> Vec(15, -9, 12),
     location |-> Some([latitude |-> 28, longitude |-> 77, accuracy |-> accuracy]),
     heartRate |-> Some(heartRate), temperature |-> Some(37),
     batteryLevel |-> Some(batteryLevel),
     emergencyTriggered |-> FALSE, fallDetected |-> FALSE,
     timestamp |-> now - age, createdAt |-> now - age]

SeedActivity(userId, n, age) ==
    [userId |-> userId, type |-> "sync",
     message |-> IF n = 1 THEN "ESP32 sensor data received (Sample 1)"
                 ELSE "ESP32 sensor data received (Sample 2)",
     status |-> "success", createdAt |-> now - age]

\* Startup, and POST /api/sensor/seed: find or create the demo user, clear
\* the SensorData collection, insert the two sample records and their two
\* sync activities.  Each step is awaited; a throw ends the function.
Seed(fault) ==
    LET found == {u \in users : u.email = DemoEmail}
        userThrows == found = {} /\ fault = "user"
        user == IF found = {} THEN DemoUser ELSE CHOOSE u \in found : TRUE
        cleared == ~userThrows /\ fault # "clear"
        inserted == cleared /\ fault # "sample"
        recorded == inserted /\ fault # "activities"
        docs == {SeedSample(nextId, user.id, SeedAgeFirst, 72, 85, 8),
                 SeedSample(nextId + 1, user.id, SeedAgeSecond, 75, 84, 12)}
    IN  /\ users' = IF found = {} /\ ~userThrows THEN users \cup {DemoUser} ELSE users
        /\ sensorData' = IF inserted THEN docs ELSE IF cleared THEN {} ELSE sensorData
        /\ nextId' = IF inserted THEN nextId + 2 ELSE nextId
        /\ activities' = IF recorded
                         THEN activities \o << SeedActivity(user.id, 1, SeedAgeFirst),
                                               SeedActivity(user.id, 2, SeedAgeSecond) >>
                         ELSE activities
        /\ reqs' = reqs + 1
        /\ UNCHANGED << deleting, calls, connector, now, input, last, timerDue, sweep >>

\* ------------------------------------------------- cleanupOldSensorData
\* `createdAt: { $lt: thirtyMinutesAgo }`
\* A filter that lets a sample stay for twice the retention time.
ExpiredAfterAnHour(doc, thirtyMinutesAgo) == doc.createdAt < thirtyMinutesAgo - RetentionMinutes

ExpiredInclusive(doc, thirtyMinutesAgo) == doc.createdAt <= thirtyMinutesAgo

Expired(doc, thirtyMinutesAgo) == doc.createdAt < thirtyMinutesAgo

NoSweep == [ran |-> FALSE, failed |-> FALSE, deletedCount |-> 0]

SweptDespiteThrow(throws, old) == sensorData \ old

\* The collection after the try block: deleteMany removed the old documents,
\* or threw and removed none.
Swept(throws, old) == IF throws THEN sensorData ELSE sensorData \ old

\* One firing of setInterval(cleanupOldSensorData, 5 * 60 * 1000).  A throw
\* of deleteMany is caught and logged inside the function.
Cleanup(fault) ==
    LET thirtyMinutesAgo == now - RetentionMinutes
        throws == fault = "delete"
        old == {d \in sensorData : Expired(d, thirtyMinutesAgo)}
    IN  /\ now >= timerDue
        /\ sensorData' = Swept(throws, old)
        /\ sweep' = [ran |-> TRUE, failed |-> throws,
                     deletedCount |-> IF throws THEN 0 ELSE Cardinality(old)]
        /\ timerDue' = now + SweepIntervalMinutes
        /\ UNCHANGED << deleting, calls, connector, now, users, activities, nextId, reqs, input, last >>

\* Time passes, one minute at a time; a timer that is due fires first.
Tick ==
    /\ now < RetentionMinutes + MaxTime
    /\ now < timerDue
    /\ now' = now + 1
    /\ UNCHANGED << deleting, calls, connector, users, sensorData, activities, nextId, reqs, input, last, timerDue, sweep >>

\* The two halves of one firing, for deleteMany calls that take time.  The
\* timer fires: the function computes thirtyMinutesAgo and awaits deleteMany.
\* Neither the function nor the setInterval call looks at whether the await
\* of an earlier firing is still pending.
StartCleanup ==
    /\ now >= timerDue
    /\ deleting' = deleting \cup {now - RetentionMinutes}
    /\ timerDue' = now + SweepIntervalMinutes
    /\ UNCHANGED << now, users, sensorData, activities, nextId, reqs, input, last, sweep,
                    calls, connector >>

\* The deleteMany of an earlier firing is carried out by the database against
\* the documents then stored, and its await returns or throws.
FinishCleanup(thirtyMinutesAgo, fault) ==
    LET throws == fault = "delete"
        old == {d \in sensorData : Expired(d, thirtyMinutesAgo)}
    IN  /\ thirtyMinutesAgo \in deleting
        /\ sensorData' = Swept(throws, old)
        /\ sweep' = [ran |-> TRUE, failed |-> throws,
                     deletedCount |-> IF throws THEN 0 ELSE Cardinality(old),
                     cutoff |-> thirtyMinutesAgo, at |-> now]
        /\ deleting' = deleting \ {thirtyMinutesAgo}
        /\ UNCHANGED << now, users, activities, nextId, reqs, input, last, timerDue,
                        calls, connector >>

\* ------------------------------------------- emergency location sharing
\* Phone numbers of emergency contacts are sequences of characters.
\* `phoneNumber.startsWith(prefix)`
StartsWith(str, prefix) ==
    /\ Len(str) >= Len(prefix)
    /\ SubSeq(str, 1, Len(prefix)) = prefix

\* `phoneNumber.replace(/^\+?91/, '+91')` on a number that was seen not to
\* start with '+': a leading "91" becomes "+91", anything else is unchanged.
ReplaceCountryCode(str) ==
    IF StartsWith(str, << "+", "9", "1" >>)
    THEN str
    ELSE IF StartsWith(str, << "9", "1" >>)
         THEN << "+", "9", "1" >> \o SubSeq(str, 3, Len(str))
         ELSE str

\* `phoneNumber.replace(/\D/g, '')`
StripNonDigits(str) ==
    SelectSeq(str, LAMBDA c : c \in {"0", "1", "2", "3", "4", "5", "6", "7", "8", "9"})

\* The formatting block of the delivery loop.
FormatPhone(phone) ==
    IF StartsWith(phone, << "+" >>) THEN phone
    ELSE LET replaced == ReplaceCountryCode(phone)
         IN  IF StartsWith(replaced, << "+", "9", "1" >>) THEN replaced
             ELSE << "+", "9", "1" >> \o StripNonDigits(replaced)

\* A user document whose profile lists the given emergency contacts.
WithContacts(user, contacts) == [user EXCEPT !.emergencyContacts = contacts]

\* `SensorData.findOne({userId}).sort({createdAt: -1})`: the samples of the
\* user with the greatest createdAt; which of several with equal createdAt
\* is returned is up to the store.
LatestSamples(userId) ==
    LET own == {d \in sensorData : d.userId = userId}
    IN  {d \in own : \A e \in own : e.createdAt <= d.createdAt}

\* The values `latestSensorData.location` can read as in a condition.
\* `location` is declared in sensorDataSchema as a nested path
\* ({latitude, longitude, accuracy}), not as a subdocument: Mongoose's getter
\* for a nested path hands out an object for every document, with or without
\* stored coordinates, so the read is truthy even when no location was
\* stored; a plain stored value would read falsy when absent.  Both readings
\* are kept.
LocationReads(doc) == {TRUE, Has(doc.location)}

\* The identifiers server.js binds to models are User, Activity and
\* SensorData; `SyncActivity` is bound nowhere, so evaluating
\* `new SyncActivity({...})` throws a ReferenceError.
SyncActivityBound == FALSE

\* One pass of `for (const contact of user.emergencyContacts) { try {...}
\* catch (smsError) {...} }` for the contact at position i: formatting throws
\* on a contact without phone, the send throws when delivery fails; both are
\* caught inside the loop body.
ContactOutcome(contacts, i, failing, sentStatus) ==
    LET contact == contacts[i]
        formatThrows == ~Has(contact.phone)
        sendThrows == ~formatThrows /\ i \in failing
    IN  [contact |-> contact.name,
         attempted |-> ~formatThrows,
         ok |-> ~formatThrows /\ ~sendThrows,
         phone |-> IF formatThrows \/ sendThrows THEN contact.phone
                   ELSE Some(FormatPhone(Val(contact.phone))),
         status |-> IF formatThrows \/ sendThrows THEN "error" ELSE sentStatus]

Outcomes(contacts, failing, sentStatus) ==
    [i \in 1..Len(contacts) |-> ContactOutcome(contacts, i, failing, sentStatus)]

\* `results` and `errors` as the loop leaves them.
ResultsOf(outcomes) == SelectSeq(outcomes, LAMBDA o : o.ok)
ErrorsOf(outcomes) == SelectSeq(outcomes, LAMBDA o : ~o.ok)

\* new SyncActivity({userId, action, status, metadata})
EmergencyLog(userId, action, results, errors, total) ==
    [userId |-> userId, type |-> action, message |-> action,
     status |-> IF Len(results) > 0 THEN "success" ELSE "failed",
     contactsNotified |-> Len(results), totalContacts |-> total,
     createdAt |-> now]

\* POST /api/emergency/share-location (test = FALSE) and
\* POST /api/emergency/share-location-test (test = TRUE) for the
\* authenticated user `requester`.  `twilio` is whether twilioClient was
\* initialised; `failing` are the positions of the contacts whose
\* messages.create() rejects (the test variant sends nothing).
ShareLocation(requester, test, twilio, failing, locationRead, latest) ==
    LET unconfigured == ~test /\ ~twilio
        found == {u \in users : u.id = requester}
        noUser == ~unconfigured /\ found = {}
        user == IF found = {} THEN DemoUser ELSE CHOOSE u \in found : TRUE
        noLocation == /\ ~unconfigured /\ ~noUser
                      /\ (latest = Absent \/ ~locationRead)
        fanout == ~unconfigured /\ ~noUser /\ ~noLocation
        contacts == IF fanout THEN user.emergencyContacts ELSE << >>
        outcomes == Outcomes(contacts, IF test THEN {} ELSE failing,
                             IF test THEN "simulated" ELSE "sent")
        results == ResultsOf(outcomes)
        errors == ErrorsOf(outcomes)
        logged == fanout /\ SyncActivityBound
        written == IF logged
                   THEN << EmergencyLog(requester,
                               IF test THEN "emergency_location_shared_test"
                               ELSE "emergency_location_shared",
                               results, errors, Len(contacts)) >>
                   ELSE << >>
    IN  /\ activities' = activities \o written
        /\ last' = [endpoint |-> IF test THEN "share-test" ELSE "share",
                    status |-> IF unconfigured THEN 503
                               ELSE IF noUser \/ noLocation THEN 404
                               ELSE IF logged THEN 200 ELSE 500,
                    requester |-> requester,
                    latest |-> latest,
                    fanout |-> fanout,
                    contacts |-> contacts,
                    outcomes |-> outcomes,
                    results |-> IF logged THEN results ELSE << >>,
                    errors |-> IF logged THEN errors ELSE << >>,
                    summary |-> IF logged
                                THEN Some([totalContacts |-> Len(contacts),
                                           successful |-> Len(results),
                                           failed |-> Len(errors)])
                                ELSE Absent,
                    written |-> written,
                    testMode |-> logged /\ test]
        /\ UNCHANGED << deleting, calls, connector, now, users, sensorData, nextId, reqs, input, timerDue, sweep >>

\* ------------------------------------------------ GET /api/sensor/history
\* The ways `.sort({createdAt: -1})` can order a set of samples: newest
\* first, samples with equal createdAt in either order.
RECURSIVE NewestFirst(_)
NewestFirst(docs) ==
    IF docs = {} THEN {<< >>}
    ELSE UNION {{<< d >> \o rest : rest \in NewestFirst(docs \ {d})} :
                   d \in {e \in docs : \A f \in docs : f.createdAt <= e.createdAt}}

\* `const { limit = 50 } = req.query` / `skip = 0`, then parseInt.
QueryNumber(param, default) == IF Has(param) THEN ParseNumber(Val(param)) ELSE default

\* The `query` object: the requester's samples, narrowed to the date range
\* when startDate or endDate is given.
HistoryQuery(userId, startDate, endDate) ==
    {d \in sensorData :
        /\ d.userId = userId
        /\ Has(startDate) => d.createdAt >= ParseNumber(Val(startDate))
        /\ Has(endDate) => d.createdAt <= ParseNumber(Val(endDate))}

\* `.limit(limit).skip(skip)` on the ordered result.  MongoDB reads a limit
\* of 0 as no limit.
Page(order, limit, skip) ==
    IF limit = 0 THEN SubSeq(order, skip + 1, Len(order))
    ELSE SubSeq(order, skip + 1, IF skip + limit < Len(order) THEN skip + limit ELSE Len(order))

\* `(parseInt(skip) + parseInt(limit)) < total`
HasMore(limit, skip, total) == skip + limit < total

GetHistory(requester, limitParam, skipParam, startDate, endDate, order) ==
    LET limit == QueryNumber(limitParam, HistoryDefaultLimit)
        skip == QueryNumber(skipParam, HistoryDefaultSkip)
        total == Cardinality(HistoryQuery(requester, startDate, endDate))
    IN  /\ order \in NewestFirst(HistoryQuery(requester, startDate, endDate))
        /\ last' = [endpoint |-> "history", status |-> 200,
                    requester |-> requester,
                    limit |-> limit, skip |-> skip,
                    ranged |-> Has(startDate) \/ Has(endDate),
                    order |-> order,
                    data |-> Page(order, limit, skip),
                    total |-> total,
                    hasMore |-> HasMore(limit, skip, total)]
        /\ UNCHANGED << deleting, calls, connector, now, users, sensorData, activities, nextId, reqs, input,
                        timerDue, sweep >>

\* ------------------------------------------------------ telemetry queries
\* Each query records the documents its response is computed from.  The
\* store holds fewer documents than the smallest limit (10), so the limits
\* cut nothing.
\* GET /api/sensor/latest: `SensorData.findOne({userId: req.user.id})`,
\* newest first; 404 without one.
GetLatest(requester, latest) ==
    /\ last' = [endpoint |-> "latest", requester |-> requester,
                status |-> IF Has(latest) THEN 200 ELSE 404,
                data |-> IF Has(latest) THEN {Val(latest)} ELSE {}]
    /\ UNCHANGED << now, users, sensorData, activities, nextId, reqs, input, timerDue,
                    sweep, deleting, calls, connector >>

\* GET /api/sensor/analytics: aggregate over `$match: {userId: req.user.id,
\* createdAt: {$gte: startDate}}`, startDate the given minutes before now.
GetAnalytics(requester, minutes) ==
    /\ last' = [endpoint |-> "analytics", requester |-> requester, status |-> 200,
                data |-> {d \in sensorData :
                             d.userId = requester /\ d.createdAt >= now - minutes}]
    /\ UNCHANGED << now, users, sensorData, activities, nextId, reqs, input, timerDue,
                    sweep, deleting, calls, connector >>

\* GET /api/sensor/dashboard: latest, recent (10) and the 30-minute summary,
\* each over `{deviceId: {$in: ['ESP32_001', 'TEST_DEVICE']}}`; req.user is
\* not used.
GetDashboard(requester) ==
    /\ last' = [endpoint |-> "dashboard", requester |-> requester, status |-> 200,
                data |-> {d \in sensorData : d.deviceId \in {Esp32DeviceId, "TEST_DEVICE"}}]
    /\ UNCHANGED << now, users, sensorData, activities, nextId, reqs, input, timerDue,
                    sweep, deleting, calls, connector >>

\* GET /api/sensor/esp32/recent: find and countDocuments over
\* `{deviceId: {$in: ['ESP32_001', 'TEST_DEVICE']}}`; req.user is not used.
GetRecent(requester) ==
    /\ last' = [endpoint |-> "recent", requester |-> requester, status |-> 200,
                data |-> {d \in sensorData : d.deviceId \in {Esp32DeviceId, "TEST_DEVICE"}}]
    /\ UNCHANGED << now, users, sensorData, activities, nextId, reqs, input, timerDue,
                    sweep, deleting, calls, connector >>

\* ------------------------------------------------------ activity routes
\* `enum: ['sync', 'location', 'emergency', 'system']` of activitySchema.type
ActivityTypes == {"sync", "location", "emergency", "system"}

\* POST /api/activities: new Activity({userId: req.user.id, type, message,
\* status = 'normal'}) and save(); a type outside the enum fails validation
\* and the catch answers 500.
CreateActivity(requester, type, fault) ==
    LET saved == type \in ActivityTypes /\ fault = "none"
    IN  /\ activities' = IF saved
                         THEN Append(activities, NewActivity(requester, type, "note", "normal"))
                         ELSE activities
        /\ last' = [endpoint |-> "activity", status |-> IF saved THEN 201 ELSE 500,
                    requester |-> requester, type |-> type]
        /\ UNCHANGED << deleting, calls, connector, now, users, sensorData, nextId, reqs, input, timerDue, sweep >>

\* `Activity.aggregate([{$match: {userId}}, {$group: {_id: '$type', count:
\* {$sum: 1}}}])`: one group per type the user has activities of.
StatGroups(userId) ==
    {[_id |-> t,
      count |-> Cardinality({i \in 1..Len(activities) :
                                activities[i].userId = userId /\ activities[i].type = t})] :
        t \in {activities[i].type : i \in {j \in 1..Len(activities) :
                                              activities[j].userId = userId}}}

\* `Activity.countDocuments({userId: req.user.id})`
CountDocuments(userId) ==
    Cardinality({i \in 1..Len(activities) : activities[i].userId = userId})

StatKeysOnlyAll == {"all"}

\* The keys of the object literal `formattedStats`.
StatKeys == {"all", "sync", "location", "emergency", "system"}

\* formattedStats after `stats.forEach(stat => formattedStats[stat._id] =
\* stat.count)`.
FormattedStats(userId) ==
    LET groups == StatGroups(userId)
    IN  [k \in StatKeys \cup {g._id : g \in groups} |->
            IF \E g \in groups : g._id = k
            THEN (CHOOSE g \in groups : g._id = k).count
            ELSE IF k = "all" THEN CountDocuments(userId) ELSE 0]

\* GET /api/activities/stats
GetStats(requester) ==
    /\ last' = [endpoint |-> "stats", status |-> 200, requester |-> requester,
                body |-> FormattedStats(requester)]
    /\ UNCHANGED << deleting, calls, connector, now, users, sensorData, activities, nextId, reqs, input,
                    timerDue, sweep >>

\* ------------------------------------------------------ WhatsAppService
\* Every socket made by makeWASocket keeps the connection.update handler it
\* was given: initialize() neither ends the socket it replaces nor removes
\* its listeners.  A socket is "connecting", "open" or "closed"; `timed`
\* tells whether the reconnect timeout made it.
\* A close handler that reconnects whatever the reason.
ShouldReconnectAlways(loggedOut) == TRUE

\* `(lastDisconnect?.error instanceof Boom) ? statusCode !== loggedOut : true`
ShouldReconnect(loggedOut) == ~loggedOut

\* `async initialize()`, called by the owner of the service or by the
\* reconnect timeout (byTimer).  useMultiFileAuthState or makeWASocket may
\* throw: the catch sets connectionState to 'error' and returns false.
Initialize(byTimer, fault) ==
    /\ byTimer => timers > 0
    /\ timers' = IF byTimer THEN timers - 1 ELSE timers
    /\ IF fault = "throw"
       THEN /\ connectionState' = "error"
            /\ UNCHANGED << sock, sockets >>
       ELSE /\ Len(sockets) < MaxSockets
            /\ sockets' = Append(sockets, [state |-> "connecting", timed |-> byTimer])
            /\ sock' = Len(sockets) + 1
            /\ UNCHANGED connectionState
    /\ UNCHANGED << isConnected, qrCode, store, deleting, calls >>

\* The handler of 'connection.update', run for an update of socket s.  The
\* update carries a qr code, or connection 'open', or connection 'close'
\* with or without the loggedOut status code.
ConnectionUpdate(s, update) ==
    LET closes == update.connection = "close"
        opens == update.connection = "open"
    IN  /\ s \in 1..Len(sockets)
        /\ sockets[s].state = "connecting" \/ (sockets[s].state = "open" /\ closes)
        /\ sockets' = [sockets EXCEPT ![s].state =
                          IF closes THEN "closed" ELSE IF opens THEN "open" ELSE @]
        /\ qrCode' = IF opens THEN FALSE ELSE IF update.qr THEN TRUE ELSE qrCode
        /\ isConnected' = IF closes THEN FALSE ELSE IF opens THEN TRUE ELSE isConnected
        /\ connectionState' = IF closes THEN "disconnected"
                              ELSE IF opens THEN "connected"
                              ELSE IF update.qr THEN "qr_generated" ELSE connectionState
        /\ timers' = IF closes /\ ShouldReconnect(update.loggedOut) THEN timers + 1 ELSE timers
        /\ UNCHANGED << sock, store, deleting, calls >>

\* `async disconnect()`.  Without a socket it does nothing.  logout() ends
\* the socket with the loggedOut status (its close update schedules no
\* reconnect), or throws, and then nothing is assigned.
Disconnect(fault) ==
    /\ IF sock = 0 \/ fault = "logout"
       THEN UNCHANGED << sock, isConnected, connectionState, sockets >>
       ELSE /\ sockets' = [sockets EXCEPT ![sock].state = "closed"]
            /\ sock' = 0
            /\ isConnected' = FALSE
            /\ connectionState' = "disconnected"
    /\ UNCHANGED << qrCode, timers, store, deleting, calls >>

\* `sendMessage(phoneNumber, message)` and `sendLocationMessage(phoneNumber,
\* latitude, longitude, message)`: the guard, then one sock.sendMessage, and
\* for a location with a message a second one.  `last` records whether the
\* call threw and how many messages it handed to the socket.
SendMessage(method, withText, fault) ==
    LET refused == ~isConnected \/ sock = 0
        wanted == IF method = "sendLocationMessage" /\ withText THEN 2 ELSE 1
    IN  /\ last' = [endpoint |-> method,
                    connected |-> isConnected,
                    thrown |-> IF refused THEN Some("WhatsApp is not connected")
                               ELSE IF fault = "send" THEN Some("send failed") ELSE Absent,
                    sent |-> IF refused THEN 0 ELSE IF fault = "send" THEN wanted - 1 ELSE wanted,
                    via |-> IF refused THEN 0 ELSE sock]
        /\ UNCHANGED << now, users, sensorData, activities, nextId, reqs, input, timerDue,
                        sweep, deleting, calls, connector >>

\* -------------------------------------------------------- request bodies
EmptyBody ==
    [deviceId |-> Absent, userId |-> Absent, accelerometer |-> Absent,
     gyroscope |-> Absent, location |-> Absent, latitude |-> Absent,
     longitude |-> Absent, timestamp |-> Absent, heartRate |-> Absent,
     temperature |-> Absent, batteryLevel |-> Absent,
     emergencyTriggered |-> Absent, fallDetected |-> Absent]

OptVectors(axis) ==
    {Absent} \cup {Some([x |-> a, y |-> b, z |-> c]) : a \in axis, b \in axis, c \in axis}

\* Axis readings around the thresholds: 9^2 + 12^2 = 15^2, 120^2 + 160^2 = 200^2.
AccAxis == {Absent, Some(0), Some(1), Some(2), Some(9), Some(-12)}
GyroAxis == {Absent, Some(1), Some(120), Some(-160)}
AccVectors == OptVectors(AccAxis)
GyroVectors == OptVectors(GyroAxis)
AccFew == {Absent, Vec(0, 0, 9), Vec(9, -12, 2)}
GyroFew == {Absent, Vec(120, -160, 0), Vec(120, -160, 1)}

Numbers(ns) == {Absent} \cup {Some(JNum(n)) : n \in ns}

HeartRates == Numbers({0, 49, 50, 120, 121, 150, 151, 300, 301})
HeartRatesFew == Numbers({130, 155})
BatteryLevels == Numbers({0, 9, 10, 19, 20, 100})
BatteryLevelsFew == Numbers({9, 50})
Temperatures == Numbers({36, 39})
Flags == {Absent, Some(FALSE), Some(TRUE)}

MotionBodies ==
    {[EmptyBody EXCEPT !.accelerometer = m[1], !.gyroscope = m[2]] :
        m \in (AccVectors \X GyroFew) \cup (AccFew \X GyroVectors)}

ScalarBodies ==
    {[EmptyBody EXCEPT !.accelerometer = Vec(0, 0, 9), !.heartRate = h, !.timestamp = t,
                       !.latitude = l, !.longitude = l] :
        h \in {Absent, Some(JNum(72)), Some(JStr(72)), Some(JNum(301))},
        t \in {Absent, Some(JNum(3)), Some(JStr(3))},
        l \in {Absent, Some(JStr(28))}}

VitalBodies ==
    {[EmptyBody EXCEPT !.deviceId = Some(Esp32DeviceId), !.userId = Some(AppUser.id),
                       !.heartRate = v[1], !.batteryLevel = v[2], !.temperature = t,
                       !.emergencyTriggered = e, !.fallDetected = f] :
        v \in (HeartRates \X BatteryLevelsFew) \cup (HeartRatesFew \X BatteryLevels),
        t \in Temperatures, e \in Flags, f \in {Absent, Some(TRUE)}}

IdentityBodies ==
    {[EmptyBody EXCEPT !.deviceId = d, !.userId = u, !.emergencyTriggered = e,
                       !.accelerometer = Vec(0, 0, 9)] :
        d \in {Absent, Some(Esp32DeviceId), Some(DemoPhone)},
        u \in {Absent, Some(AppUser.id), Some("unknown")},
        e \in {Absent, Some(TRUE)}}

\* Bodies with one numeric field sent as a string that holds no number;
\* latitude and longitude also next to a proper partner.
TextBodies ==
    {[EmptyBody EXCEPT !.accelerometer = Vec(0, 0, 9), ![f] = Some(JText)] :
        f \in {"latitude", "longitude", "heartRate", "temperature", "batteryLevel", "timestamp"}}
    \cup {[EmptyBody EXCEPT !.accelerometer = Vec(0, 0, 9),
                            !.latitude = Some(JText), !.longitude = Some(JStr(77))],
          [EmptyBody EXCEPT !.accelerometer = Vec(0, 0, 9),
                            !.latitude = Some(JStr(28)), !.longitude = Some(JText)]}

Bodies == MotionBodies \cup ScalarBodies \cup VitalBodies \cup IdentityBodies \cup TextBodies

\* The bodies the retention specification sends.
SmallBodies ==
    {[EmptyBody EXCEPT !.accelerometer = a, !.timestamp = t] :
        a \in {Vec(0, 0, 9)}, t \in {Absent, Some(JNum(1))}}

ReceiveFaults == {"none", "user", "sample", "fall", "rapid", "sync"}
DataFaults == {"none", "sample", "emergency_triggered", "fall_detected", "abnormal_vitals",
               "abnormal_temperature", "low_battery"}
SeedFaults == {"none", "user", "clear", "sample", "activities"}
CleanupFaults == {"none", "delete"}

\* Emergency contacts: one with a full international number, one without a
\* country code, one with the country code but no '+', one whose phone was
\* never filled in.
\* The contact lists of a profile: the first n contacts of two orders.
ContactLists ==
    LET Asha == [name |-> "Asha", phone |-> Some(<< "+", "9", "1", "7" >>)]
        Ben == [name |-> "Ben", phone |-> Some(<< "9", "8", "-", "7" >>)]
        Cy == [name |-> "Cy", phone |-> Some(<< "9", "1", " ", "5" >>)]
        Dee == [name |-> "Dee", phone |-> Absent]
    IN  {SubSeq(full, 1, n) : full \in {<< Asha, Ben, Cy, Dee >>, << Dee, Asha, Ben, Cy >>},
                              n \in 0..(IF MaxContacts < 4 THEN MaxContacts ELSE 4)}

\* Bodies of POST /api/sensor/data for the two accounts, with and without a
\* location.
OwnedBodies ==
    {[EmptyBody EXCEPT !.deviceId = Some(Esp32DeviceId), !.userId = Some(u),
                       !.location = l] :
        u \in {"u1", "demo"},
        l \in {Absent, Some([latitude |-> 12, longitude |-> 77, accuracy |-> 5])}}

Requesters == {"u1", "demo", "gone"}

\* Query-string parameters are strings of digits, or missing.
LimitParams == {Absent, Some(JStr(0)), Some(JStr(1)), Some(JStr(2))}
SkipParams == {Absent, Some(JStr(1)), Some(JStr(2))}
DateParams == {Absent, Some(JStr(1))}

\* ------------------------------------------------------- specifications
InitStore ==
    /\ now = 0
    /\ sensorData = {}
    /\ activities = << >>
    /\ nextId = 1
    /\ reqs = 0
    /\ last = NoResponse
    /\ timerDue = SweepIntervalMinutes
    /\ sweep = NoSweep
    /\ deleting = {}
    /\ calls = << >>
    /\ sock = 0
    /\ isConnected = FALSE
    /\ qrCode = FALSE
    /\ connectionState = "disconnected"
    /\ timers = 0
    /\ sockets = << >>

\* What findOne can hand to a share request of the given user.
LatestReads(requester) ==
    {Some(d) : d \in LatestSamples(requester)}
    \cup (IF LatestSamples(requester) = {} THEN {Absent} ELSE {})

TruthReads(latest) == IF latest = Absent THEN {FALSE} ELSE LocationReads(Val(latest))

\* One registered account exists; the demo account may or may not.
Init ==
    /\ InitStore
    /\ users \in {{AppUser}, {AppUser, DemoUser}}
    /\ input \in Bodies

PostReceive == reqs < MaxIngest /\ \E fault \in ReceiveFaults : Receive(input, fault)

PostData == reqs < MaxIngest /\ \E fault \in DataFaults : PostSensorData(input, fault)

Next == PostReceive \/ PostData

Spec == Init /\ [][Next]_vars

InitRetention ==
    /\ InitStore
    /\ users = {AppUser}
    /\ input = EmptyBody

ReceiveAny ==
    reqs < MaxWrites /\ now <= MaxArrival /\ \E body \in SmallBodies : \E fault \in {"none", "sample"} : Receive(body, fault)

SeedAny == reqs < MaxWrites /\ now <= MaxArrival /\ \E fault \in SeedFaults : Seed(fault)

Sweep == \E fault \in CleanupFaults : Cleanup(fault)

\* The demo user reads the first page of the history, and asks for the
\* location to be shared (Twilio configured, every delivery succeeding).
AskAny ==
    /\ now <= MaxArrival
    /\ \E order \in NewestFirst(HistoryQuery(DemoUser.id, Absent, Absent)) :
        GetHistory(DemoUser.id, Some(JStr(1)), Absent, Absent, Absent, order)

AlertAny ==
    /\ now <= MaxArrival
    /\ \E latest \in LatestReads(DemoUser.id) : \E read \in TruthReads(latest) :
        ShareLocation(DemoUser.id, FALSE, TRUE, {}, read, latest)

NextRetention == Tick \/ Sweep \/ SeedAny \/ ReceiveAny \/ AskAny \/ AlertAny

SpecRetention == InitRetention /\ [][NextRetention]_vars

\* The life of the samples stored before the first sweep: the timer keeps
\* firing, no sweep fails, and the demo user asks for the location to be
\* shared.  Date.now() advances and setInterval fires whenever it is due.
NextLive ==
    \/ Tick
    \/ Cleanup("none")
    \/ reqs < MaxWrites /\ now < SweepIntervalMinutes /\ Seed("none")
    \/ /\ reqs < MaxWrites /\ now < SweepIntervalMinutes
       /\ Receive([EmptyBody EXCEPT !.accelerometer = Vec(0, 0, 9),
                                    !.latitude = Some(JStr(28)),
                                    !.longitude = Some(JStr(77))], "none")
    \/ /\ last.endpoint # "share"
       /\ \E latest \in LatestReads(DemoUser.id) : \E read \in TruthReads(latest) :
             ShareLocation(DemoUser.id, FALSE, TRUE, {}, read, latest)

SpecLive ==
    InitRetention /\ [][NextLive]_vars /\ WF_vars(Tick) /\ WF_vars(Cleanup("none"))

\* Sweeps whose deleteMany takes time, against a store filled by the device
\* and by the seed: the timer starts sweeps, the database completes them in
\* any order, and samples arrive in between.
FinishSweep ==
    \E thirtyMinutesAgo \in deleting : \E fault \in CleanupFaults :
        FinishCleanup(thirtyMinutesAgo, fault)

\* A deleteMany takes less than MaxLag minutes.  Seeds and samples arrive in
\* the first minutes and again from the minute the first of them can expire,
\* none of them failing.
NextSweeps ==
    \/ (\A c \in deleting : now + 1 < c + RetentionMinutes + MaxLag) /\ Tick
    \/ StartCleanup
    \/ FinishSweep
    \/ reqs < MaxWrites /\ (now <= MaxEarly \/ now >= RetentionMinutes) /\ Seed("none")
    \/ /\ reqs < MaxWrites /\ (now <= MaxEarly \/ now >= RetentionMinutes)
       /\ Receive([EmptyBody EXCEPT !.accelerometer = Vec(0, 0, 9)], "none")

SpecSweeps == InitRetention /\ [][NextSweeps]_vars

\* The WhatsAppService object used by its owner while its sockets report
\* updates and its reconnect timeouts run.
NextConnector ==
    \/ \E fault \in {"none", "throw"} : Initialize(FALSE, fault)
    \/ \E fault \in {"none", "throw"} : Initialize(TRUE, fault)
    \/ \E s \in 1..Len(sockets) :
         \E update \in [qr : BOOLEAN, connection : {"none", "open", "close"},
                        loggedOut : BOOLEAN] :
            /\ update.qr # (update.connection # "none")
            /\ update.loggedOut => update.connection = "close"
            /\ ConnectionUpdate(s, update)
    \/ \E fault \in {"none", "logout"} : Disconnect(fault)
    \/ \E method \in {"sendMessage", "sendLocationMessage"}, withText \in BOOLEAN,
          fault \in {"none", "send"} : SendMessage(method, withText, fault)

SpecConnector == InitRetention /\ [][NextConnector]_vars

\* A timeout that was set runs: the event loop runs every timer that is due.
FairConnector ==
    SpecConnector /\ WF_vars(\E fault \in {"none", "throw"} : Initialize(TRUE, fault))

\* Authenticated requests against a store filled by the device: the clock
\* advances, samples arrive, and users ask for their location to be shared.
\* Whether Twilio was configured is fixed at startup.
InitRequests ==
    /\ InitStore
    /\ \E contacts \in ContactLists :
          users = {WithContacts(AppUser, contacts), DemoUser}
    /\ input \in {[twilioClient |-> TRUE], [twilioClient |-> FALSE]}

Arrive ==
    /\ Cardinality(sensorData) < MaxStored
    /\ \E body \in OwnedBodies : PostSensorData(body, "none")

\* No share request has been answered yet.  A share request leaves the
\* store as it is, so every pair of a store and an answer is reached by a
\* behaviour in which the share request comes last.
Unshared == last.endpoint \notin {"share", "share-test"}

Share ==
    /\ Unshared
    /\ \E requester \in Requesters : \E latest \in LatestReads(requester) :
        \E failing \in SUBSET (1..MaxContacts) : \E read \in TruthReads(latest) :
            ShareLocation(requester, FALSE, input.twilioClient, failing, read, latest)

ShareTest ==
    /\ Unshared
    /\ \E requester \in Requesters : \E latest \in LatestReads(requester) :
        \E read \in TruthReads(latest) :
            ShareLocation(requester, TRUE, input.twilioClient, {}, read, latest)

Pass == now < MaxClock /\ Tick

NextRequests == (Unshared /\ Pass) \/ (Unshared /\ Arrive) \/ Share \/ ShareTest

SpecRequests == InitRequests /\ [][NextRequests]_vars

\* The history of a store filled by the device.  A query leaves the store
\* as it is, so every pair of a store and an answer is reached by a
\* behaviour in which the query comes last.
InitHistory ==
    /\ InitStore
    /\ users = {AppUser, DemoUser}
    /\ input = EmptyBody

Unanswered == last.endpoint # "history"

History ==
    /\ Unanswered
    /\ \E requester \in Requesters : \E limitParam \in LimitParams : \E skipParam \in SkipParams :
        \E startDate \in DateParams : \E endDate \in DateParams :
            \E order \in NewestFirst(HistoryQuery(requester, startDate, endDate)) :
                GetHistory(requester, limitParam, skipParam, startDate, endDate, order)

NextHistory == (Unanswered /\ Pass) \/ (Unanswered /\ Arrive) \/ History

SpecHistory == InitHistory /\ [][NextHistory]_vars

\* POST /receive requests of the device that overlap, on a store without
\* the demo user.
NextRace == ReceiveFindUser \/ (\E body \in SmallBodies : ReceiveResume(body)) \/ Pass

SpecRace == InitRetention /\ [][NextRace]_vars

\* Telemetry queries of a store filled by the devices of two users; the
\* query comes last.
NextQueries ==
    \/ last.endpoint \in {"none", "data"} /\ Pass
    \/ last.endpoint \in {"none", "data"} /\ Arrive
    \/ \E requester \in Requesters :
          \/ \E latest \in IF LatestSamples(requester) = {} THEN {Absent}
                                                                ELSE LatestReads(requester) :
                GetLatest(requester, latest)
          \/ \E minutes \in {60, 1440} : GetAnalytics(requester, minutes)
          \/ GetDashboard(requester)
          \/ GetRecent(requester)

SpecQueries == InitHistory /\ [][NextQueries]_vars

\* Activity statistics of a log written by the clients and by the device;
\* as for the history, the query comes last.
InitStats ==
    /\ InitStore
    /\ users = {AppUser, DemoUser}
    /\ input = EmptyBody

Uncounted == last.endpoint # "stats"

Record ==
    /\ Uncounted
    /\ Len(activities) < MaxActivities
    /\ \E type \in ActivityTypes \cup {"panic"} : \E fault \in {"none", "save"} :
          CreateActivity(AppUser.id, type, fault)

Detect ==
    /\ Uncounted
    /\ Len(activities) + 2 <= MaxActivities
    /\ \E body \in {EmptyBody, [EmptyBody EXCEPT !.accelerometer = Vec(0, 0, 9)]} :
          Receive(body, "none")

Stats == Uncounted /\ \E requester \in Requesters : GetStats(requester)

NextStats == Record \/ Detect \/ Stats

SpecStats == InitStats /\ [][NextStats]_vars

\* ================================================================ claims
\* Readings of the last request, taken from the body as it was sent.
Body == Val(last.body)

Component(vec, a) ==
    IF vec = << >> THEN 0 ELSE IF vec[1][a] = << >> THEN 0 ELSE vec[1][a][1]

SquaredNorm(vec) ==
    Component(vec, "x") * Component(vec, "x") + Component(vec, "y") * Component(vec, "y")
    + Component(vec, "z") * Component(vec, "z")

ReceiveOk == last.endpoint = "receive" /\ last.status = 200
DataOk == last.endpoint = "data" /\ last.status = 201

\* The activities the last request wrote that carry the given message.
WrittenWith(message) == {i \in 1..Len(last.written) : last.written[i].message = message}

\* What the last request wrote is what the Activity collection gained.
WritesStored ==
    /\ Len(last.written) <= Len(activities)
    /\ \A i \in 1..Len(last.written) :
          activities[Len(activities) - Len(last.written) + i] = last.written[i]

FallMessage == "Potential fall detected!"
RapidMessage == "Rapid movement detected!"
ButtonMessage == "Emergency button pressed on device"
VitalsMessage == "Abnormal heart rate detected"
BatteryMessage == "Low battery warning"

\* C1: a payload ingested through POST /receive raises the fall signal (one
\* Activity of type emergency and status warning, and fallDetected = true in
\* the response) exactly when x^2 + y^2 + z^2 of its accelerometer, each
\* missing axis counted as 0, is above 225 or below 4.
C1_FallIffOutsideBand ==
    ReceiveOk =>
        LET n == SquaredNorm(Body.accelerometer)
            outside == n > 225 \/ n < 4
            fallActs == {i \in 1..Len(last.written) :
                            /\ last.written[i].type = "emergency"
                            /\ last.written[i].status = "warning"}
        IN  /\ last.fallDetected <=> outside
            /\ Cardinality(fallActs) = (IF outside THEN 1 ELSE 0)
            /\ fallActs = WrittenWith(FallMessage)
            /\ WritesStored

\* C1 witness: a vector of squared length 226 was ingested and raised the fall.
C1_Witness ==
    /\ ReceiveOk
    /\ SquaredNorm(Body.accelerometer) = 226
    /\ last.fallDetected
    /\ WrittenWith(FallMessage) # {}

\* C2: a payload ingested through POST /receive raises the rapid-motion
\* signal (one Activity of type emergency and status error, and
\* emergencyTriggered = true in the response) exactly when gx^2 + gy^2 + gz^2
\* of its gyroscope is above 40000; a rotation of exactly 200 raises nothing.
C2_RapidIffAbove200 ==
    ReceiveOk =>
        LET n == SquaredNorm(Body.gyroscope)
            rapidActs == {i \in 1..Len(last.written) :
                             /\ last.written[i].type = "emergency"
                             /\ last.written[i].status = "error"}
        IN  /\ last.emergencyTriggered <=> n > 40000
            /\ Cardinality(rapidActs) = (IF n > 40000 THEN 1 ELSE 0)
            /\ rapidActs = WrittenWith(RapidMessage)
            /\ WritesStored

\* C2 witness: a rotation of squared length 40001 was ingested and raised the
\* rapid-motion signal.
C2_Witness ==
    /\ ReceiveOk
    /\ SquaredNorm(Body.gyroscope) = 40001
    /\ last.emergencyTriggered
    /\ WrittenWith(RapidMessage) # {}

\* C3 (as claimed): every ingest request that reports success, on either
\* endpoint, has written exactly one Activity of type sync and status success
\* for the owning user.
C3_OneSyncPerSuccess ==
    (ReceiveOk \/ DataOk) =>
        Cardinality({i \in 1..Len(last.written) :
                        /\ last.written[i].type = "sync"
                        /\ last.written[i].status = "success"
                        /\ last.written[i].userId = Val(last.sample).userId}) = 1

\* The rules the last response reports as fired, the message of the activity
\* each rule writes, and the severity the rule table gives it.
RuleFired(name) ==
    \/ last.endpoint = "receive" /\ name = "fall" /\ last.fallDetected
    \/ last.endpoint = "receive" /\ name = "rapid" /\ last.emergencyTriggered
    \/ last.endpoint = "data" /\ \E i \in 1..Len(last.activitiesTriggered) :
                                    last.activitiesTriggered[i] = name

RuleMessageOf(name) ==
    CASE name = "fall" -> FallMessage
      [] name = "rapid" -> RapidMessage
      [] name = "emergency_triggered" -> ButtonMessage
      [] name = "fall_detected" -> "Fall detected by device sensors"
      [] name = "abnormal_vitals" -> VitalsMessage
      [] name = "abnormal_temperature" -> "Abnormal body temperature"
      [] name = "low_battery" -> BatteryMessage

RuleSeverityOf(name) ==
    CASE name \in {"fall", "fall_detected", "abnormal_temperature"} -> "warning"
      [] name \in {"rapid", "emergency_triggered"} -> "error"
      [] name = "abnormal_vitals" ->
            IF Val(Body.heartRate).n > 150 THEN "error" ELSE "warning"
      [] name = "low_battery" ->
            IF Val(Body.batteryLevel).n < 10 THEN "error" ELSE "warning"

RuleNames == {"fall", "rapid", "emergency_triggered", "fall_detected", "abnormal_vitals",
              "abnormal_temperature", "low_battery"}

\* C4 (as claimed): for every rule a successful ingest reports as fired,
\* exactly one Activity is written for that rule, of type emergency, with
\* the status the rule's severity asks for.
C4_OneEmergencyActivityPerRule ==
    (ReceiveOk \/ DataOk) =>
        \A name \in RuleNames :
            RuleFired(name) =>
                /\ Cardinality(WrittenWith(RuleMessageOf(name))) = 1
                /\ \A i \in WrittenWith(RuleMessageOf(name)) :
                      /\ last.written[i].type = "emergency"
                      /\ last.written[i].status = RuleSeverityOf(name)

\* The names a response lists, as a set.
Triggered == {last.activitiesTriggered[i] : i \in 1..Len(last.activitiesTriggered)}

\* C5: a payload accepted by POST /api/sensor/data with emergencyTriggered =
\* true records the emergency-button signal (one Activity of status error,
\* and emergency_triggered among activitiesTriggered) whatever the other
\* fields are, and the other rules report what they report for the same
\* payload without the button.
C5_ButtonNeverSuppressed ==
    (DataOk /\ Body.emergencyTriggered = Some(TRUE)) =>
        LET others == DataRules([Body EXCEPT !.emergencyTriggered = Absent],
                                Val(last.sample).userId)
        IN  /\ "emergency_triggered" \in Triggered
            /\ Cardinality(WrittenWith(ButtonMessage)) = 1
            /\ \A i \in WrittenWith(ButtonMessage) : last.written[i].status = "error"
            /\ Triggered \ {"emergency_triggered"} = {others[i].name : i \in 1..Len(others)}
            /\ Len(last.written) = 1 + Len(others)
            /\ WritesStored

\* C5 witness: the button was pressed on a payload that also fired the fall,
\* vitals, temperature and battery rules.
C5_Witness ==
    /\ DataOk
    /\ Body.emergencyTriggered = Some(TRUE)
    /\ Triggered = {"emergency_triggered", "fall_detected", "abnormal_vitals",
                    "abnormal_temperature", "low_battery"}
    /\ WrittenWith(ButtonMessage) # {}

\* C6 (as claimed): for a heartRate of 0..300 in a payload accepted by
\* POST /api/sensor/data, the abnormal-vitals signal is recorded exactly when
\* heartRate > 120 or heartRate < 50, with status error above 150 and warning
\* otherwise; without a heartRate nothing is recorded.
C6_VitalsIffOutsideBand ==
    DataOk =>
        IF Body.heartRate = Absent
        THEN "abnormal_vitals" \notin Triggered /\ WrittenWith(VitalsMessage) = {}
        ELSE LET hr == Val(Body.heartRate).n
             IN  (Val(Body.heartRate).kind = "number" /\ hr >= 0 /\ hr <= 300) =>
                    /\ "abnormal_vitals" \in Triggered <=> (hr > 120 \/ hr < 50)
                    /\ Cardinality(WrittenWith(VitalsMessage))
                          = (IF hr > 120 \/ hr < 50 THEN 1 ELSE 0)
                    /\ \A i \in WrittenWith(VitalsMessage) :
                          last.written[i].status = (IF hr > 150 THEN "error" ELSE "warning")

\* C7 (as claimed): for a batteryLevel of 0..100 in a payload accepted by
\* POST /api/sensor/data, the low-battery signal is recorded exactly when
\* batteryLevel < 20, with status error below 10 and warning otherwise.
C7_BatteryIffBelow20 ==
    (DataOk /\ Body.batteryLevel # Absent) =>
        LET level == Val(Body.batteryLevel).n
        IN  (Val(Body.batteryLevel).kind = "number" /\ level >= 0 /\ level <= 100) =>
                /\ "low_battery" \in Triggered <=> level < 20
                /\ Cardinality(WrittenWith(BatteryMessage)) = (IF level < 20 THEN 1 ELSE 0)
                /\ \A i \in WrittenWith(BatteryMessage) :
                      last.written[i].status = (IF level < 10 THEN "error" ELSE "warning")

\* C8: a retention sweep that runs at time T and does not fail leaves in the
\* store exactly the samples that were there and were created at T - 30
\* minutes or later.
C8_SweepKeepsLast30Minutes ==
    [][(timerDue' # timerDue /\ ~sweep'.failed) =>
          sensorData' = {d \in sensorData : d.createdAt >= now - 30}]_vars

\* C8 witness: just after a sweep that deleted one sample, the sample that was
\* received 31 minutes before the sweep is gone (its sync activity remains)
\* and a sample received 29 minutes before the sweep is still stored.
C8_Witness ==
    /\ sweep.ran /\ ~sweep.failed /\ sweep.deletedCount = 1
    /\ timerDue = now + 5
    /\ \E i \in 1..Len(activities) :
          activities[i].type = "sync" /\ activities[i].createdAt = now - 31
    /\ ~\E d \in sensorData : d.createdAt = now - 31
    /\ \E d \in sensorData : d.createdAt = now - 29

\* C9: when the write of the telemetry sample fails, the ingest answers 500
\* and the request adds nothing to the Activity collection, nor a sample.
C9_SampleFailureWritesNothing ==
    [][(reqs' # reqs /\ last'.endpoint \in {"receive", "data"} /\ "sample" \in last'.failed) =>
          /\ last'.status = 500
          /\ activities' = activities
          /\ sensorData' = sensorData]_vars

\* C9 witness: the sample write of a payload whose rules would have fired
\* (emergency button pressed) failed, and the answer was 500.
C9_Witness ==
    /\ last.endpoint = "data"
    /\ "sample" \in last.failed
    /\ last.status = 500
    /\ Body.emergencyTriggered = Some(TRUE)
    /\ activities = << >>

\* C10 (as claimed): when the sample was persisted and the write of one of
\* the activities fails, the ingest still reports success.
C10_ActivityFailureStillSuccess ==
    (last.sample # Absent /\ last.failed # {}) => last.status \in {200, 201}

\* C11: a POST /api/sensor/data request answered 400 (no deviceId) or 404 (no
\* user resolved) writes nothing: the stored users, samples and activities
\* are the same after the request as before it.
C11_RejectedWritesNothing ==
    [][(reqs' # reqs /\ last'.endpoint = "data" /\ last'.status \in {400, 404})
        => /\ users' = users
           /\ sensorData' = sensorData
           /\ activities' = activities]_vars

C11_Witness ==
    /\ last.endpoint = "data"
    /\ last.status = 404
    /\ Has(Body.deviceId)
    /\ Body.emergencyTriggered = Some(TRUE)
    /\ sensorData = {}
    /\ activities = << >>

\* The last request was a share-location request, real or simulated.
ShareAnswered == last.endpoint \in {"share", "share-test"}

\* C12 (as claimed): a share-location request that reaches the fan-out
\* attempts every emergency contact, puts each contact in exactly one of
\* results and errors, and reports a summary whose successful and failed
\* counts add up to totalContacts.
C12_EveryContactOneOutcome ==
    (ShareAnswered /\ last.fanout) =>
        /\ Len(last.outcomes) = Len(last.contacts)
        /\ Has(last.summary)
        /\ Len(last.results) + Len(last.errors) = Len(last.contacts)
        /\ Val(last.summary).successful + Val(last.summary).failed
              = Val(last.summary).totalContacts

\* C13 (as claimed): after the fan-out, of the real and of the test variant,
\* exactly one activity record summarising the totals is written, whether or
\* not deliveries failed, and the request is answered as completed.
C13_OneRecordAfterFanout ==
    (ShareAnswered /\ last.fanout) =>
        /\ Len(last.written) = 1
        /\ WritesStored
        /\ last.status = 200

\* C14 (as claimed): a share-location request of a user who has no sample,
\* or whose most recent sample has no location, is answered not-found with
\* no delivery attempted and no record written.
C14_NoLocationNoDelivery ==
    (/\ ShareAnswered
     /\ last.status # 503
     /\ \E u \in users : u.id = last.requester
     /\ (last.latest = Absent \/ ~Has(Val(last.latest).location)))
    => /\ last.status = 404
       /\ ~last.fanout
       /\ last.outcomes = << >>
       /\ last.written = << >>

\* The page the claim describes: positions skip+1 .. skip+limit of the
\* requester's samples, newest first.
ClaimedPage ==
    [i \in 1..(IF last.skip >= Len(last.order) THEN 0
               ELSE IF last.skip + last.limit > Len(last.order)
                    THEN Len(last.order) - last.skip
                    ELSE last.limit) |-> last.order[last.skip + i]]

Counted(type) ==
    Cardinality({i \in 1..Len(activities) :
                    activities[i].userId = last.requester /\ activities[i].type = type})

\* C16: GET /api/activities/stats always answers with the keys all, sync,
\* location, emergency and system; each type key holds the number of the
\* requester's activities of that type, 0 when there are none, and `all`
\* their total.
C16_StatsAllKeys ==
    last.endpoint = "stats" =>
        /\ last.status = 200
        /\ DOMAIN last.body = {"all", "sync", "location", "emergency", "system"}
        /\ \A t \in {"sync", "location", "emergency", "system"} : last.body[t] = Counted(t)
        /\ last.body["all"] = Counted("sync") + Counted("location")
                                + Counted("emergency") + Counted("system")

C16_Witness ==
    /\ last.endpoint = "stats"
    /\ last.body["all"] = 5
    /\ last.body["sync"] = 3
    /\ last.body["emergency"] = 2
    /\ last.body["location"] = 0
    /\ last.body["system"] = 0
    /\ \E i \in 1..Len(activities) : activities[i].userId # last.requester

\* C17: a stored sample is never modified, and leaves the store only through
\* the retention sweep or the bulk clear of the seeding: a step that removes or
\* changes a stored sample is a step of one of the two; ingests, history
\* queries and share-location requests leave every stored sample as it was.
C17_SamplesLeaveOnlyBySweepOrSeed ==
    [][(\E d \in sensorData : d \notin sensorData') => (Sweep \/ SeedAny)]_vars

\* C17 witness: a sample stored by an earlier ingest is still there, unchanged,
\* after a later ingest, a history query and a share-location request.
C17_Witness ==
    /\ last.endpoint = "share"
    /\ reqs = 2
    /\ \E d \in sensorData : d.id = 1 /\ d.createdAt < now
    /\ \E d \in sensorData : d.id = 2

\* C18: a sweep whose delete fails is caught and logged inside the sweep: the
\* store, the users and the activities are as before, and the timer stays
\* armed; the sweep of the next firing is not affected and removes exactly
\* the samples older than 30 minutes, those the failed sweep left included.
C18_FailedSweepIsHarmless ==
    [][/\ (timerDue' # timerDue /\ sweep'.failed) =>
            /\ sensorData' = sensorData
            /\ users' = users
            /\ activities' = activities
            /\ timerDue' = now + SweepIntervalMinutes
       /\ (sweep.failed /\ timerDue' # timerDue /\ ~sweep'.failed) =>
            /\ sensorData' = {d \in sensorData : d.createdAt >= now - RetentionMinutes}
            /\ sweep'.deletedCount
                  = Cardinality({d \in sensorData : d.createdAt < now - RetentionMinutes})]_vars

\* C18 witness: a sweep has just failed and a sample older than 30 minutes
\* is still in the store, with the next firing five minutes away.
C18_Witness ==
    /\ sweep.ran /\ sweep.failed
    /\ timerDue = now + SweepIntervalMinutes
    /\ \E d \in sensorData : d.createdAt < now - RetentionMinutes

\* The numeric fields of a body that are strings holding no number.
TextFields(body) ==
    {f \in {"latitude", "longitude", "heartRate", "temperature", "batteryLevel", "timestamp"} :
        NotANumber(body[f])}

\* C19 (as claimed): in POST /receive a numeric field sent as a string that
\* cannot be parsed is treated as absent: with every write succeeding, the
\* sample is still persisted, without the field, and the ingest answers
\* success.
C19_UnparsableFieldIsAbsent ==
    [][(TextFields(input) # {} /\ Receive(input, "none")) =>
          /\ last'.status = 200
          /\ Has(last'.sample)
          /\ sensorData' = sensorData \cup {Val(last'.sample)}]_vars

\* The place of a rule in the rule table: fall, rapid-motion,
\* abnormal-vitals, abnormal-temperature, low-battery, emergency-button.
TableRank(name) ==
    CASE name \in {"fall", "fall_detected"} -> 1
      [] name = "rapid" -> 2
      [] name = "abnormal_vitals" -> 3
      [] name = "abnormal_temperature" -> 4
      [] name = "low_battery" -> 5
      [] name = "emergency_triggered" -> 6

\* C20 (as claimed): when several rules fire on one payload, the names in
\* activitiesTriggered, and the activities written, come in the order of
\* the rule table, the emergency button last.
C20_SignalsInTableOrder ==
    /\ DataOk =>
          \A i, j \in 1..Len(last.activitiesTriggered) :
              i < j => TableRank(last.activitiesTriggered[i])
                          <= TableRank(last.activitiesTriggered[j])
    /\ (ReceiveOk /\ last.fallDetected /\ last.emergencyTriggered /\ last.failed = {}) =>
          /\ last.written[1].message = FallMessage
          /\ last.written[2].message = RapidMessage

\* C23 (as claimed): the fallDetected flag of a stored sample is true exactly
\* when the device asserted it or the classifier raised the fall signal: a
\* POST /receive payload answered with fallDetected = true is stored with
\* fallDetected = true, and a POST /api/sensor/data payload is stored with
\* the flag the device sent.
C23_StoredFallFlag ==
    /\ ReceiveOk => Val(last.sample).fallDetected = last.fallDetected
    /\ DataOk => Val(last.sample).fallDetected = (Body.fallDetected = Some(TRUE))

\* C24: a sample stored by POST /receive or POST /api/sensor/data is created
\* at the receipt time whatever timestamp the device supplies; the device
\* timestamp sets only the sample's timestamp field, and without one the
\* receipt time is recorded in both fields.
C24_CreatedAtReceipt ==
    (ReceiveOk \/ DataOk) =>
        /\ Val(last.sample).createdAt = now
        /\ Val(last.sample).timestamp =
               IF Truthy(Body.timestamp) THEN ParseNumber(Val(Body.timestamp)) ELSE now
        /\ Val(last.sample) \in sensorData

\* A device timestamp other than the receipt time was stored by an ingest endpoint.
C24_Witness ==
    /\ ReceiveOk \/ DataOk
    /\ Truthy(Body.timestamp)
    /\ Val(last.sample).timestamp # now
    /\ Val(last.sample).createdAt = now

\* C21 (as claimed): at most one retention sweep is in progress at any time;
\* a firing of the timer while the delete of the previous sweep has not
\* completed starts no second delete.
C21_OneSweepAtATime == Cardinality(deleting) <= 1

\* C22: whatever the interleaving of sweeps with ingests, seeds and other
\* sweeps, a completing sweep deletes only samples created more than 30
\* minutes before it started (so none created within the last 30 minutes,
\* none inserted while it was in progress, and no seeded sample before it
\* passes the horizon), deletes all of those unless it fails, and a second
\* sweep with the same cutoff finds nothing more to delete.
C22_SweepSparesLast30Minutes ==
    [][\A c \in deleting \ deleting' :
          /\ sensorData' \subseteq sensorData
          /\ \A d \in sensorData \ sensorData' :
                d.createdAt < c /\ d.createdAt < now - RetentionMinutes
          /\ sweep'.failed \/ ~\E d \in sensorData' : d.createdAt < c]_vars

\* A sweep that took time deleted a stale sample and left one that was
\* inserted while it was in progress.
C22_Witness ==
    /\ sweep.ran /\ ~sweep.failed /\ sweep.deletedCount > 0
    /\ \E d \in sensorData :
          /\ d.createdAt >= sweep.cutoff + RetentionMinutes
          /\ d.createdAt < sweep.at

\* C29 (as claimed): in every state of the WhatsAppService, isConnected is
\* true exactly when connectionState is 'connected', and then sock is not
\* null; a send while isConnected is false hands nothing to the socket and
\* throws 'WhatsApp is not connected'.
C29_ConnectedIffStateConnected ==
    /\ isConnected <=> connectionState = "connected"
    /\ isConnected => sock # 0
    /\ (last.endpoint \in {"sendMessage", "sendLocationMessage"} /\ ~last.connected) =>
          last.sent = 0 /\ last.thrown = Some("WhatsApp is not connected")

\* C30 (as claimed): once disconnect() has completed (sock null, isConnected
\* false) the service stays that way until its owner calls initialize():
\* no reconnect timeout and no update of a socket made earlier changes sock
\* or isConnected.
C30_StaysDisconnected ==
    [][(sock = 0 /\ ~isConnected) =>
          \/ sock' = 0 /\ ~isConnected'
          \/ \E fault \in {"none", "throw"} : Initialize(FALSE, fault)]_vars

C26_OnlyOwnSamples ==
    (last.endpoint \in {"latest", "analytics", "dashboard", "recent"}) =>
        \A d \in last.data : d.userId = last.requester

\* C27: while the timer keeps firing and no sweep fails, every stored sample
\* is eventually deleted, and none stays longer than 35 minutes (30 minutes
\* and the wait for the next sweep); a share-location request of a user
\* whose samples are all gone is answered 404, no location data, and
\* delivers nothing.
C27_EverySampleSwept ==
    /\ \A i \in 1..(2 * MaxWrites) :
          (\E d \in sensorData : d.id = i) ~> ~(\E d \in sensorData : d.id = i)
    /\ [](\A d \in sensorData :
             now - d.createdAt <= RetentionMinutes + SweepIntervalMinutes)
    /\ [][(last'.endpoint = "share" /\ last' # last /\ DemoUser \in users
              /\ ~\E d \in sensorData : d.userId = DemoUser.id) =>
                 (last'.status = 404 /\ ~last'.fanout /\ last'.latest = Absent)]_vars

\* The sweep has deleted the last sample of the demo user, and the share
\* request that followed was answered 404.
C27_Witness ==
    /\ sweep.ran /\ sweep.deletedCount > 0
    /\ DemoUser \in users /\ sensorData = {} /\ nextId > 1
    /\ last.endpoint = "share" /\ last.status = 404

\* C28 (as claimed): however POST /receive requests that start without a
\* demo user interleave, at most one user has the demo email, every stored
\* /receive sample and activity refers to that user, and every request
\* stores its sample and answers success.
C28_ConcurrentReceivesAllSucceed ==
    /\ Cardinality({u \in users : u.email = DemoEmail}) <= 1
    /\ \A d \in sensorData : \E u \in users : u.email = DemoEmail /\ d.userId = u.id
    /\ \A i \in 1..Len(activities) :
          \E u \in users : u.email = DemoEmail /\ activities[i].userId = u.id
    /\ last.endpoint = "receive" => (last.status = 200 /\ Val(last.sample) \in sensorData)
    /\ Cardinality(sensorData) = reqs

====
